---- MODULE Spec2Model ----
(***************************************************************************)
(* Model of example_02/auto_update_machine.py: one run of the script, from *)
(* the `__main__` block to process exit.  Strings are sequences of         *)
(* one-character strings.  The environment of a run (the contents of       *)
(* ./ansible.cfg, what lies at the inventory path, the line typed at the   *)
(* prompt, the status of the ssh child) is chosen nondeterministically.    *)
(***************************************************************************)
EXTENDS Integers, Sequences, FiniteSets, TLC

VARIABLES cfg, hosts, pc, private_key, hostfile, data, machine_address,
          new_cmd, shell_cmd, stdin_line, returncode, log, returned,
          status, exitCode, exc

vars == <<cfg, hosts, pc, private_key, hostfile, data, machine_address,
          new_cmd, shell_cmd, stdin_line, returncode, log, returned,
          status, exitCode, exc>>

(* ---------------------------- bounds ---------------------------------- *)

MaxLen == 4

MaxValLen == 2

FileChars == {"a", " ", "\n"}

ValueChars == {"k", "%"}

Inputs == {<<>>, <<"y">>, <<"n">>}

ReturnCodes == {0, 1, 255}

BoundedSeq(S, n) == UNION {[1..k -> S] : k \in 0..n}

(* ------------------------- string helpers ----------------------------- *)

Whitespace == {" ", "\t", "\n", "\r"}

RECURSIVE LStrip(_)
LStrip(s) ==
    IF s # <<>> /\ Head(s) \in Whitespace THEN LStrip(Tail(s)) ELSE s

RECURSIVE RStrip(_)
RStrip(s) ==
    IF s # <<>> /\ s[Len(s)] \in Whitespace
    THEN RStrip(SubSeq(s, 1, Len(s) - 1)) ELSE s

StripLeadingOnly(s) == LStrip(s)

Strip(s) == RStrip(LStrip(s))

(* file.readlines(): the content cut after every "\n", line ends kept *)
RECURSIVE SplitLines(_, _)
SplitLines(rest, cur) ==
    IF rest = <<>>
    THEN IF cur = <<>> THEN <<>> ELSE <<cur>>
    ELSE IF Head(rest) = "\n"
         THEN <<Append(cur, "\n")>> \o SplitLines(Tail(rest), <<>>)
         ELSE SplitLines(Tail(rest), Append(cur, Head(rest)))

ReadLines(content) == SplitLines(content, <<>>)

(* ------------------------- command literals --------------------------- *)

SSH_I == <<"s", "s", "h", " ", "-", "i", " ">>

EC2_USER_AT == <<" ", "e", "c", "2", "-", "u", "s", "e", "r", "@">>

T_SUDO_YUM_UPDATE == <<" ", "-", "t", " ", "'", "s", "u", "d", "o", " ", "y", "u", "m", " ", "u", "p", "d", "a", "t", "e", " ", "-", "y", "'">>

(* ---------------------------- ConfigParser ---------------------------- *)

OptionNames == {"hostfile", "private_key_file"}

(* SafeConfigParser interpolation of a raw value: "%%" yields "%", any    *)
(* other "%" raises InterpolationSyntaxError.  ValueChars has no "(", so  *)
(* "%(name)s" references do not occur.                                    *)
RECURSIVE Interpolate(_)
Interpolate(raw) ==
    IF raw = <<>> THEN [ok |-> TRUE, value |-> <<>>]
    ELSE IF Head(raw) # "%"
         THEN LET r == Interpolate(Tail(raw))
              IN  [ok |-> r.ok, value |-> <<Head(raw)>> \o r.value]
         ELSE IF Len(raw) >= 2 /\ raw[2] = "%"
              THEN LET r == Interpolate(SubSeq(raw, 3, Len(raw)))
                   IN  [ok |-> r.ok, value |-> <<"%">> \o r.value]
              ELSE [ok |-> FALSE, value |-> <<>>]

(* config.get('defaults', option) on the parser filled by config.read *)
ConfigGet(option) ==
    IF cfg.kind # "ok" \/ ~cfg.hasDefaults
    THEN [kind |-> "raise", exc |-> "NoSectionError", value |-> <<>>]
    ELSE IF option \notin DOMAIN cfg.options
         THEN [kind |-> "raise", exc |-> "NoOptionError", value |-> <<>>]
         ELSE LET r == Interpolate(cfg.options[option])
              IN  IF r.ok
                  THEN [kind |-> "value", exc |-> "", value |-> r.value]
                  ELSE [kind |-> "raise", exc |-> "InterpolationSyntaxError",
                        value |-> <<>>]

(* ----------------------------- environment ---------------------------- *)

Values == BoundedSeq(ValueChars, MaxValLen)

OptionMaps == UNION {[D -> Values] : D \in SUBSET OptionNames}

Configs ==
    {[kind |-> "absent", hasDefaults |-> FALSE, options |-> <<>>],
     [kind |-> "malformed", hasDefaults |-> FALSE, options |-> <<>>],
     [kind |-> "ok", hasDefaults |-> FALSE, options |-> <<>>]}
    \cup {[kind |-> "ok", hasDefaults |-> TRUE, options |-> o] : o \in OptionMaps}

HostFiles ==
    {[kind |-> "absent", content |-> <<>>], [kind |-> "dir", content |-> <<>>]}
    \cup {[kind |-> "file", content |-> c] : c \in BoundedSeq(FileChars, MaxLen)}

(* `hosts` is what lies at the path the `hostfile` option names; nothing   *)
(* exists at the empty path (os.path.exists('') is False)                  *)
EmptyHostfilePath(c) ==
    /\ c.kind = "ok"
    /\ c.hasDefaults
    /\ "hostfile" \in DOMAIN c.options
    /\ c.options["hostfile"] = <<>>

(* ----------------------------- termination ---------------------------- *)

SysExit(code) ==
    /\ pc' = "exited"
    /\ status' = "sys_exit"
    /\ exitCode' = code
    /\ exc' = ""

(* an exception nobody catches: traceback, interpreter exit status 1 *)
Uncaught(name) ==
    /\ pc' = "exited"
    /\ status' = "uncaught"
    /\ exitCode' = 1
    /\ exc' = name

Continue(next) ==
    /\ pc' = next
    /\ UNCHANGED <<status, exitCode, exc>>

Init ==
    /\ cfg \in Configs
    /\ hosts \in HostFiles
    /\ EmptyHostfilePath(cfg) => hosts.kind = "absent"
    /\ pc = "check_cfg"
    /\ private_key = <<>>
    /\ hostfile = <<>>
    /\ data = <<>>
    /\ machine_address = <<>>
    /\ new_cmd = <<>>
    /\ shell_cmd = <<>>
    /\ stdin_line = <<>>
    /\ returncode = 0
    /\ log = <<>>
    /\ returned = {}
    /\ status = "running"
    /\ exitCode = 0
    /\ exc = ""

(* --------------------- get_private_key_and_hostfile ------------------- *)

CheckConfigExists_NoExit ==
    /\ pc = "check_cfg"
    /\ log' = Append(log, "exists_cfg")
    /\ Continue("read_cfg")
    /\ UNCHANGED <<cfg, hosts, private_key, hostfile, data, machine_address,
                   new_cmd, shell_cmd, stdin_line, returncode, returned>>

(* if not os.path.exists(ANSIBLE_CFG): print ...; sys.exit(1) *)
CheckConfigExists ==
    /\ pc = "check_cfg"
    /\ log' = Append(log, "exists_cfg")
    /\ IF cfg.kind = "absent" THEN SysExit(1) ELSE Continue("read_cfg")
    /\ UNCHANGED <<cfg, hosts, private_key, hostfile, data, machine_address,
                   new_cmd, shell_cmd, stdin_line, returncode, returned>>

(* config = SafeConfigParser(); config.read('./ansible.cfg'): a file that  *)
(* cannot be opened is skipped silently, a file that does not parse raises *)
ReadConfig ==
    /\ pc = "read_cfg"
    /\ log' = Append(log, "read_cfg")
    /\ IF cfg.kind = "malformed"
       THEN Uncaught("ParsingError")
       ELSE Continue("get_hostfile")
    /\ UNCHANGED <<cfg, hosts, private_key, hostfile, data, machine_address,
                   new_cmd, shell_cmd, stdin_line, returncode, returned>>

(* hostfile = config.get('defaults', 'hostfile')                          *)
(* if hostfile is None: print ...; sys.exit(2)                            *)
GetHostfile ==
    /\ pc = "get_hostfile"
    /\ LET r == ConfigGet("hostfile")
       IN  CASE r.kind = "raise" -> Uncaught(r.exc) /\ UNCHANGED hostfile
             [] r.kind = "none"  -> SysExit(2) /\ UNCHANGED hostfile
             [] OTHER            -> Continue("get_private_key")
                                    /\ hostfile' = r.value
    /\ UNCHANGED <<cfg, hosts, private_key, data, machine_address, new_cmd,
                   shell_cmd, stdin_line, returncode, log, returned>>

(* private_key = config.get('defaults', 'private_key_file')               *)
(* return (private_key, hostfile)                                         *)
GetPrivateKey ==
    /\ pc = "get_private_key"
    /\ LET r == ConfigGet("private_key_file")
       IN  IF r.kind = "raise"
           THEN Uncaught(r.exc) /\ UNCHANGED <<private_key, returned>>
           ELSE /\ Continue("check_hosts")
                /\ private_key' = r.value
                /\ returned' = returned \cup {"get_private_key_and_hostfile"}
    /\ UNCHANGED <<cfg, hosts, hostfile, data, machine_address, new_cmd,
                   shell_cmd, stdin_line, returncode, log>>

(* ------------------------------- get_host ----------------------------- *)

CheckHostfileExists_NoExit ==
    /\ pc = "check_hosts"
    /\ log' = Append(log, "exists_hosts")
    /\ Continue("read_hosts")
    /\ UNCHANGED <<cfg, hosts, private_key, hostfile, data, machine_address,
                   new_cmd, shell_cmd, stdin_line, returncode, returned>>

(* if not os.path.exists(hostfile): print ...; sys.exit(3) *)
CheckHostfileExists ==
    /\ pc = "check_hosts"
    /\ log' = Append(log, "exists_hosts")
    /\ IF hosts.kind = "absent" THEN SysExit(3) ELSE Continue("read_hosts")
    /\ UNCHANGED <<cfg, hosts, private_key, hostfile, data, machine_address,
                   new_cmd, shell_cmd, stdin_line, returncode, returned>>

(* with open(hostfile, 'r') as open_hostfile: data = ....readlines() *)
ReadHostfile ==
    /\ pc = "read_hosts"
    /\ log' = Append(log, "open_hosts")
    /\ IF hosts.kind = "file"
       THEN Continue("second_line") /\ data' = ReadLines(hosts.content)
       ELSE Uncaught("IOError") /\ UNCHANGED data
    /\ UNCHANGED <<cfg, hosts, private_key, hostfile, machine_address,
                   new_cmd, shell_cmd, stdin_line, returncode, returned>>

SecondLine_LastLine ==
    /\ pc = "second_line"
    /\ IF Len(data) < 1
       THEN Uncaught("IndexError") /\ UNCHANGED <<machine_address, returned>>
       ELSE /\ Continue("build_cmd")
            /\ machine_address' = Strip(data[Len(data)])
            /\ returned' = returned \cup {"get_host"}
    /\ UNCHANGED <<cfg, hosts, private_key, hostfile, data, new_cmd,
                   shell_cmd, stdin_line, returncode, log>>

SecondLine_Default ==
    /\ pc = "second_line"
    /\ Continue("build_cmd")
    /\ machine_address' = IF Len(data) < 2 THEN <<>> ELSE Strip(data[2])
    /\ returned' = returned \cup {"get_host"}
    /\ UNCHANGED <<cfg, hosts, private_key, hostfile, data, new_cmd,
                   shell_cmd, stdin_line, returncode, log>>

(* return data[1].strip()   (index 1 is the second element) *)
SecondLine ==
    /\ pc = "second_line"
    /\ IF Len(data) < 2
       THEN Uncaught("IndexError") /\ UNCHANGED <<machine_address, returned>>
       ELSE /\ Continue("build_cmd")
            /\ machine_address' = Strip(data[2])
            /\ returned' = returned \cup {"get_host"}
    /\ UNCHANGED <<cfg, hosts, private_key, hostfile, data, new_cmd,
                   shell_cmd, stdin_line, returncode, log>>

(* ------------------------------ example_02 ---------------------------- *)

old_cmd_Swapped(pem_file_path, addr) ==
    SSH_I \o addr \o EC2_USER_AT \o pem_file_path

(* "ssh -i {pem_file_path} ec2-user@{machine_address}".format(...) *)
old_cmd(pem_file_path, addr) ==
    SSH_I \o pem_file_path \o EC2_USER_AT \o addr

(* old_cmd = ...; new_cmd = "{0} -t 'sudo yum update -y'".format(old_cmd) *)
BuildCommand ==
    /\ pc = "build_cmd"
    /\ new_cmd' = old_cmd(private_key, machine_address) \o T_SUDO_YUM_UPDATE
    /\ Continue("display")
    /\ UNCHANGED <<cfg, hosts, private_key, hostfile, data, machine_address,
                   shell_cmd, stdin_line, returncode, log, returned>>

(* print """ ... {0} ... Press the RETURN ...""".format(new_cmd) *)
DisplayCommand ==
    /\ pc = "display"
    /\ log' = Append(log, "display")
    /\ Continue("raw_input")
    /\ UNCHANGED <<cfg, hosts, private_key, hostfile, data, machine_address,
                   new_cmd, shell_cmd, stdin_line, returncode, returned>>

RawInput_Cancel ==
    /\ pc = "raw_input"
    /\ \E eof \in BOOLEAN, line \in Inputs :
         IF eof
         THEN /\ Uncaught("EOFError")
              /\ log' = Append(log, "raw_input_eof")
              /\ UNCHANGED stdin_line
         ELSE /\ IF line = <<"n">> THEN SysExit(0) ELSE Continue("print_cmd")
              /\ log' = Append(log, "raw_input")
              /\ stdin_line' = line
    /\ UNCHANGED <<cfg, hosts, private_key, hostfile, data, machine_address,
                   new_cmd, shell_cmd, returncode, returned>>

(* raw_input('--> '): blocks for one line, whose value is discarded; end   *)
(* of input raises EOFError                                                *)
RawInput ==
    /\ pc = "raw_input"
    /\ \E eof \in BOOLEAN, line \in Inputs :
         IF eof
         THEN /\ Uncaught("EOFError")
              /\ log' = Append(log, "raw_input_eof")
              /\ UNCHANGED stdin_line
         ELSE /\ Continue("print_cmd")
              /\ log' = Append(log, "raw_input")
              /\ stdin_line' = line
    /\ UNCHANGED <<cfg, hosts, private_key, hostfile, data, machine_address,
                   new_cmd, shell_cmd, returncode, returned>>

(* print "\nCommand to execute: {}\n\n".format(new_cmd) *)
PrintCommand ==
    /\ pc = "print_cmd"
    /\ log' = Append(log, "print_cmd")
    /\ Continue("call")
    /\ UNCHANGED <<cfg, hosts, private_key, hostfile, data, machine_address,
                   new_cmd, shell_cmd, stdin_line, returncode, returned>>

(* subprocess.call(new_cmd, shell=True): the status it returns is dropped *)
SubprocessCall ==
    /\ pc = "call"
    /\ log' = Append(log, "spawn")
    /\ shell_cmd' = new_cmd
    /\ \E rc \in ReturnCodes : returncode' = rc
    /\ Continue("finish")
    /\ UNCHANGED <<cfg, hosts, private_key, hostfile, data, machine_address,
                   new_cmd, stdin_line, returned>>

Finish_PropagateStatus ==
    /\ pc = "finish"
    /\ returned' = returned \cup {"example_02"}
    /\ pc' = "exited"
    /\ status' = IF returncode = 0 THEN "normal" ELSE "sys_exit"
    /\ exitCode' = returncode
    /\ exc' = ""
    /\ UNCHANGED <<cfg, hosts, private_key, hostfile, data, machine_address,
                   new_cmd, shell_cmd, stdin_line, returncode, log>>

(* print "\n"; example_02 returns; the module ends: exit status 0 *)
Finish ==
    /\ pc = "finish"
    /\ returned' = returned \cup {"example_02"}
    /\ pc' = "exited"
    /\ status' = "normal"
    /\ exitCode' = 0
    /\ exc' = ""
    /\ UNCHANGED <<cfg, hosts, private_key, hostfile, data, machine_address,
                   new_cmd, shell_cmd, stdin_line, returncode, log>>

Next ==
    \/ CheckConfigExists
    \/ ReadConfig
    \/ GetHostfile
    \/ GetPrivateKey
    \/ CheckHostfileExists
    \/ ReadHostfile
    \/ SecondLine
    \/ BuildCommand
    \/ DisplayCommand
    \/ RawInput
    \/ PrintCommand
    \/ SubprocessCall
    \/ Finish

Spec == Init /\ [][Next]_vars

(* ===================== properties of a run ============================ *)

Events == {log[i] : i \in 1..Len(log)}

Exited == pc = "exited"

ConfigWasRead == "get_private_key_and_hostfile" \in returned

(* lines of a text, counted on the text itself: one per "\n", plus one for *)
(* an unterminated tail                                                    *)
NewlineAt(c) == {i \in 1..Len(c) : c[i] = "\n"}

LineCount(c) ==
    Cardinality(NewlineAt(c))
      + (IF c # <<>> /\ c[Len(c)] # "\n" THEN 1 ELSE 0)

Least(S) == CHOOSE i \in S : \A j \in S : i <= j

SecondLineText(c) ==
    LET first == Least(NewlineAt(c))
        later == {i \in NewlineAt(c) : i > first}
        last  == IF later = {} THEN Len(c) ELSE Least(later)
    IN  SubSeq(c, first + 1, last)

(* t is l without its leading and trailing whitespace *)
IsTrimOf(t, l) ==
    /\ t = <<>> \/ (t[1] \notin Whitespace /\ t[Len(t)] \notin Whitespace)
    /\ \E a \in 0..Len(l), b \in 0..Len(l) :
         /\ a <= b
         /\ t = SubSeq(l, a + 1, b)
         /\ \A i \in 1..a : l[i] \in Whitespace
         /\ \A i \in (b + 1)..Len(l) : l[i] \in Whitespace

SSH_I_TEXT == <<"s", "s", "h", " ", "-", "i", " ">>

EC2_TEXT == <<" ", "e", "c", "2", "-", "u", "s", "e", "r", "@">>

UPDATE_TEXT == <<" ", "-", "t", " ", "'", "s", "u", "d", "o", " ", "y", "u", "m", " ", "u", "p", "d", "a", "t", "e", " ", "-", "y", "'">>

ExpectedCommand(key_path, address) ==
    SSH_I_TEXT \o key_path \o EC2_TEXT \o address \o UPDATE_TEXT

(* C1: whenever ./ansible.cfg exists with a `defaults` section that has no *)
(* `hostfile` key, the run ends by the designed exit with code 2.          *)
C1_MissingHostfileKeyExits2 ==
    (/\ Exited
     /\ cfg.kind = "ok"
     /\ cfg.hasDefaults
     /\ "hostfile" \notin DOMAIN cfg.options)
    => (status = "sys_exit" /\ exitCode = 2)

(* C2: when ./ansible.cfg does not exist the run ends with exit code 1 and *)
(* the existence check on the configuration path is the only thing it did: *)
(* no parse, no inventory check or open, no prompt, no subprocess.         *)
C2_MissingConfigExits1 ==
    cfg.kind = "absent" =>
        /\ pc \in {"check_cfg", "exited"}
        /\ log \in {<<>>, <<"exists_cfg">>}
        /\ Exited => /\ status = "sys_exit"
                     /\ exitCode = 1
                     /\ log = <<"exists_cfg">>
                     /\ returned = {}

C2_Witness == cfg.kind = "absent" /\ Exited /\ log = <<"exists_cfg">>

(* C3: when the configuration was read and nothing exists at the hostfile  *)
(* path, get_host ends the run with exit code 3, the inventory unopened.   *)
C3_MissingInventoryExits3 ==
    (ConfigWasRead /\ hosts.kind = "absent") =>
        /\ "open_hosts" \notin Events
        /\ pc \in {"check_hosts", "exited"}
        /\ Exited => /\ status = "sys_exit"
                     /\ exitCode = 3
                     /\ log = <<"exists_cfg", "read_cfg", "exists_hosts">>

C3_Witness ==
    ConfigWasRead /\ hosts.kind = "absent" /\ Exited /\ exitCode = 3

(* C4: for an inventory file of at least two lines get_host returns the    *)
(* second line without its leading and trailing whitespace, whatever the   *)
(* other lines hold, and does not fail at the index access.                *)
C4_SecondLineTrimmed ==
    (hosts.kind = "file" /\ LineCount(hosts.content) >= 2) =>
        /\ exc # "IndexError"
        /\ (ConfigWasRead /\ Exited) => "get_host" \in returned
        /\ "get_host" \in returned =>
               IsTrimOf(machine_address, SecondLineText(hosts.content))

C4_Witness ==
    /\ "get_host" \in returned
    /\ LineCount(hosts.content) >= 3
    /\ machine_address # <<>>
    /\ machine_address # SecondLineText(hosts.content)

(* C5: the string handed to the shell is exactly                           *)
(* ssh -i {key_path} ec2-user@{address} -t 'sudo yum update -y'            *)
(* a function of the key path and the address alone.                       *)
C5_CommandString ==
    "spawn" \in Events =>
        shell_cmd = ExpectedCommand(private_key, machine_address)

C5_Witness ==
    "spawn" \in Events /\ private_key # <<>> /\ machine_address # <<>>

(* C6: the subprocess is spawned only after the command was displayed and  *)
(* the read at the prompt returned, in that order; and once the read has   *)
(* returned, whatever the line, the run goes on to the spawn.              *)
C6_SpawnAfterConfirmation ==
    /\ "spawn" \in Events =>
           \E i, j, k \in 1..Len(log) :
               /\ i < j /\ j < k
               /\ log[i] = "display"
               /\ log[j] = "raw_input"
               /\ log[k] = "spawn"
    /\ "raw_input" \in Events =>
           /\ status \in {"running", "normal"}
           /\ pc \in {"print_cmd", "call"} \/ "spawn" \in Events

C6_Witness ==
    "spawn" \in Events /\ stdin_line = <<"n">>

C6_WitnessEmptyLine ==
    "spawn" \in Events /\ stdin_line = <<>>

(* C7: whatever status the ssh child returns, example_02 returns normally  *)
(* and the process exits with code 0.                                      *)
C7_ChildStatusIgnored ==
    "spawn" \in Events =>
        /\ pc \in {"finish", "exited"}
        /\ Exited => /\ status = "normal"
                     /\ exitCode = 0
                     /\ exc = ""
                     /\ "example_02" \in returned

C7_Witness ==
    "spawn" \in Events /\ Exited /\ returncode # 0

(* C8: for every configuration that exists and has a `hostfile` key under  *)
(* `defaults`, get_private_key_and_hostfile returns its pair, whatever the *)
(* state of `private_key_file` (any value, or absent).                     *)
C8_ReaderNeverFailsOnPrivateKey ==
    (/\ Exited
     /\ cfg.kind = "ok"
     /\ cfg.hasDefaults
     /\ "hostfile" \in DOMAIN cfg.options
     /\ Interpolate(cfg.options["hostfile"]).ok)
    => ConfigWasRead

(* C9: a run that ends by a designed exit 1, 2 or 3 stops where the        *)
(* failure was detected: nothing displayed, no prompt read, no subprocess; *)
(* nothing happens after exit; the subprocess is spawned at most once, and *)
(* only when the configuration was found, `hostfile` was obtained and the  *)
(* inventory file existed and had a second line.                           *)
C9_Terminal ==
    /\ (Exited /\ status = "sys_exit" /\ exitCode \in {1, 2, 3}) =>
           /\ Events \cap {"display", "raw_input", "raw_input_eof",
                           "print_cmd", "spawn"} = {}
           /\ "example_02" \notin returned
           /\ log[Len(log)] \in {"exists_cfg", "exists_hosts"}
    /\ Cardinality({i \in 1..Len(log) : log[i] = "spawn"}) <= 1
    /\ "spawn" \in Events =>
           /\ cfg.kind = "ok"
           /\ cfg.hasDefaults
           /\ "hostfile" \in DOMAIN cfg.options
           /\ hosts.kind = "file"
           /\ LineCount(hosts.content) >= 2

C9_FailuresAreTerminal == []C9_Terminal /\ [][pc # "exited"]_vars

C9_Witness ==
    /\ Exited /\ status = "sys_exit" /\ exitCode = 3
    /\ log[Len(log)] = "exists_hosts"

ShortInventory ==
    ConfigWasRead /\ hosts.kind = "file" /\ LineCount(hosts.content) < 2

(* C10 as stated: for an inventory file of fewer than two lines the run    *)
(* ends in an unhandled error from the index access, the process does not  *)
(* exit with code 1, 2 or 3, get_host returns nothing, and neither the     *)
(* prompt nor the subprocess is reached.                                   *)
C10_ShortInventoryNoCode123 ==
    (ShortInventory /\ Exited) =>
        /\ exc = "IndexError"
        /\ exitCode \notin {1, 2, 3}
        /\ "get_host" \notin returned
        /\ Events \cap {"display", "raw_input", "raw_input_eof", "spawn"} = {}

(* C10 amended: for an inventory file of fewer than two lines the run ends *)
(* in an uncaught IndexError from the index access, not by any designed    *)
(* sys.exit; the process exit status is 1 (the interpreter's status for an *)
(* uncaught exception); get_host returns nothing, and neither the prompt   *)
(* nor the subprocess is reached.                                          *)
C10_ShortInventoryUncaught ==
    ShortInventory =>
        /\ "get_host" \notin returned
        /\ Events \cap {"display", "raw_input", "raw_input_eof", "spawn"} = {}
        /\ Exited => /\ status = "uncaught"
                     /\ exc = "IndexError"
                     /\ exitCode = 1

C10_Witness ==
    /\ ShortInventory /\ Exited /\ exc = "IndexError"
    /\ LineCount(hosts.content) = 1

====
